---- MODULE Spec2Model ----
(***************************************************************************)
(* hikaku-voice: the VoiceComparison component                             *)
(* (src/frontend/components/VoiceComparison.tsx).                          *)
(*                                                                         *)
(* The component is a set of callbacks run one at a time by the browser's  *)
(* event loop: the WebSocket callbacks (onopen, onerror, onmessage), the   *)
(* audio worklet port callback, the record button's click handler and the  *)
(* continuations of the awaits of startRecording.  Each callback, and each *)
(* stretch of startRecording between two awaits, is one action.            *)
(*                                                                         *)
(* State updates go through React's setState.  An update issued outside a  *)
(* click handler is queued and its updater function runs when React next   *)
(* renders the component, which is a later task of the event loop; only    *)
(* when the component has no update pending is the updater evaluated at    *)
(* once, at the setState call (React's eager state).  The updaters of      *)
(* this component read lastSpeechTimeRef.current when they run.            *)
(*                                                                         *)
(* Texts are sequences of one-character strings, so that trim() is         *)
(* computed.  Audio samples are the numerators n of n / 2^15, which are    *)
(* exact Float32 values; the products with 0x8000 and 0x7FFF are exact in  *)
(* double precision.  Times are milliseconds, as returned by Date.now().   *)
(***************************************************************************)
EXTENDS Integers, Sequences, FiniteSets, TLC

\* ------------------------------------------------------------------ bounds
MaxEvents == 2          \* inbound WebSocket messages per behaviour, any content
MaxReceived == 4        \* inbound WebSocket messages per behaviour, scripted
MaxBlocks == 2          \* audio blocks posted by the worklets per behaviour
MaxBlockLen == 2        \* samples per audio block
MaxStarts == 2          \* calls of startRecording per behaviour
StartTime == 1000       \* Date.now() when the component mounts
MaxTime == 1250         \* Date.now() stays between StartTime and MaxTime

\* --------------------------------------------------------------- constants
SpeechThreshold == 500  \* if (maxAmp > 500)
NegScale == 32768       \* 0x8000
PosScale == 32767       \* 0x7FFF

SampleDen == 2 ^ 15     \* a sample n stands for the float n / 2^15
TickSteps == {250}      \* milliseconds by which the clock steps

Providers == {"deepgram", "openai"}
\* The names of the members of Object.prototype, which every states object
\* inherits, and the one the inbound messages of SpecNames use.
PrototypeKeys ==
  {"constructor", "hasOwnProperty", "isPrototypeOf", "propertyIsEnumerable",
   "toLocaleString", "toString", "valueOf", "__proto__", "__defineGetter__",
   "__defineSetter__", "__lookupGetter__", "__lookupSetter__"}
OddProviders == {"constructor"}
\* The characters String.prototype.trim() strips: ECMAScript WhiteSpace and
\* LineTerminator.  A character with no escape here is named by its code
\* point.
WhiteSpace ==
  {" ", "\t", "\n", "\r", "\f", "U+000B", "U+00A0", "U+1680", "U+2000",
   "U+2001", "U+2002", "U+2003", "U+2004", "U+2005", "U+2006", "U+2007",
   "U+2008", "U+2009", "U+200A", "U+2028", "U+2029", "U+202F", "U+205F",
   "U+3000", "U+FEFF"}
Texts == { <<>>, <<" ", "\f">>, <<"\f", "h", "i", " ">> }

ConnectError == "Failed to connect to backend. Is it running?"
MicError == "Could not access microphone."
ServerErrors == {"provider failed", "rate limited"}
NoError == "null"
Undefined == "undefined"

VARIABLES
  clock,            \* Date.now()
  lastSpeechTime,   \* lastSpeechTimeRef.current
  states,           \* the states mapping: provider -> ProviderState
  error,            \* the error state
  isRecording,      \* the isRecording state
  queue,            \* state updates issued and not yet run by React
  rendering,        \* React is running the queued updates
  nextRef,          \* identity given to the next ProviderState object created
  history,          \* the states updates run so far, in order (auxiliary)
  readyState,       \* websocketRef.current.readyState
  received,         \* inbound messages delivered so far
  messages,         \* the inbound messages delivered, in order (auxiliary)
  mounted,          \* the component is mounted
  callPc,           \* per call of startRecording: where it stands
  streams,          \* per call: the MediaStream it acquired
  contexts,         \* per call: the AudioContext it created
  streamRef,        \* streamRef.current (0 is null)
  audioContextRef,  \* audioContextRef.current (0 is null)
  posted,           \* audio blocks posted by a worklet, not yet handled
  mediaDevices,     \* navigator.mediaDevices is defined (a secure context)
  blocksSeen,       \* audio blocks handled by worklet.port.onmessage
  lastBlock,        \* the Float32Array of the last block handled (auxiliary)
  lastFrame,        \* the Int16Array computed from it
  sent              \* audio frames sent on the WebSocket

vars == << clock, lastSpeechTime, states, error, isRecording, queue, rendering,
           nextRef, history, readyState, received, messages, mounted,
           callPc, streams, contexts, mediaDevices,
           streamRef, audioContextRef, posted, blocksSeen, lastBlock,
           lastFrame, sent >>

reactVars == << states, error, isRecording, queue, rendering, nextRef, history,
               mounted >>
wsVars == << readyState, received, messages >>
captureVars == << callPc, streams, contexts, streamRef, audioContextRef, posted >>
audioVars == << lastSpeechTime, blocksSeen, lastBlock, lastFrame, sent >>

\* ----------------------------------------------------------------- helpers
Max(a, b) == IF a > b THEN a ELSE b
Min(a, b) == IF a < b THEN a ELSE b
Abs(x) == IF x < 0 THEN -x ELSE x
Last(s) == s[Len(s)]

\* String.prototype.trim(): strips white space at both ends.
RECURSIVE TrimStart(_)
TrimStart(s) ==
  IF s # <<>> /\ Head(s) \in WhiteSpace THEN TrimStart(Tail(s)) ELSE s

RECURSIVE TrimEnd(_)
TrimEnd(s) ==
  IF s # <<>> /\ Last(s) \in WhiteSpace
  THEN TrimEnd(SubSeq(s, 1, Len(s) - 1)) ELSE s

Trim(s) == TrimEnd(TrimStart(s))

\* A string is truthy when it is not empty.
Truthy(s) == s # <<>>

\* ------------------------------------------------------ the states reducer
\* A ProviderState; ref is the identity of the JavaScript object.
ProviderState(segments, partialText, latency, lastUpdate, ref) ==
  [segments |-> segments, partialText |-> partialText, latency |-> latency,
   lastUpdate |-> lastUpdate, ref |-> ref]

\* { segments: [], partialText: "", latency: 0, lastUpdate: 0 }
FreshState(ref) == ProviderState(<<>>, <<>>, 0, 0, ref)

\* { ...prev, [provider]: value }
SpreadWith(prev, provider, value) ==
  [p \in DOMAIN prev \cup {provider} |-> IF p = provider THEN value ELSE prev[p]]

\* Math.max(0, now - lastSpeechTimeRef.current)
TimeSinceSpeech(now, speech) == Max(0, now - speech)

\* Variants of the updater, each with one slip, used to test the claims.
\* Every entry is rebuilt with the new lastUpdate.
TranscriptionUpdaterTouchAll(prev, event, now, speech, ref) ==
  LET provider == event.provider
      current == IF provider \in DOMAIN prev THEN prev[provider] ELSE FreshState(0)
      append == event.is_final /\ Truthy(Trim(event.text))
      latency == IF append THEN TimeSinceSpeech(now, speech) ELSE current.latency
      newSegments == IF append
                     THEN Append(current.segments,
                                 [text |-> event.text, latency |-> latency])
                     ELSE current.segments
      newPartial == IF event.is_final THEN <<>> ELSE event.text
  IN [p \in DOMAIN prev \cup {provider} |->
        IF p = provider
        THEN ProviderState(newSegments, newPartial, latency, now, ref)
        ELSE [prev[p] EXCEPT !.lastUpdate = now]]

\* A final event clears the partial of every provider.
TranscriptionUpdaterClearOthers(prev, event, now, speech, ref) ==
  LET provider == event.provider
      current == IF provider \in DOMAIN prev THEN prev[provider] ELSE FreshState(0)
      append == event.is_final /\ Truthy(Trim(event.text))
      latency == IF append THEN TimeSinceSpeech(now, speech) ELSE current.latency
      newSegments == IF append
                     THEN Append(current.segments,
                                 [text |-> event.text, latency |-> latency])
                     ELSE current.segments
      newPartial == IF event.is_final THEN <<>> ELSE event.text
  IN [p \in DOMAIN prev \cup {provider} |->
        IF p = provider
        THEN ProviderState(newSegments, newPartial, latency, now, ref)
        ELSE IF event.is_final THEN [prev[p] EXCEPT !.partialText = <<>>]
        ELSE prev[p]]

\* prev[provider] without the default: an event for a provider that has no
\* entry is ignored.
TranscriptionUpdaterKnownOnly(prev, event, now, speech, ref) ==
  LET provider == event.provider
      current == IF provider \in DOMAIN prev THEN prev[provider] ELSE FreshState(0)
      append == event.is_final /\ Truthy(Trim(event.text))
      latency == IF append THEN TimeSinceSpeech(now, speech) ELSE current.latency
      newSegments == IF append
                     THEN Append(current.segments,
                                 [text |-> event.text, latency |-> latency])
                     ELSE current.segments
      newPartial == IF event.is_final THEN <<>> ELSE event.text
  IN IF provider \in DOMAIN prev
     THEN SpreadWith(prev, provider,
                     ProviderState(newSegments, newPartial, latency, now, ref))
     ELSE prev

\* newSegments starts empty instead of as a copy of current.segments.
TranscriptionUpdaterReplaceLog(prev, event, now, speech, ref) ==
  LET provider == event.provider
      current == IF provider \in DOMAIN prev THEN prev[provider] ELSE FreshState(0)
      append == event.is_final /\ Truthy(Trim(event.text))
      latency == IF append THEN TimeSinceSpeech(now, speech) ELSE current.latency
      newSegments == IF append
                     THEN << [text |-> event.text, latency |-> latency] >>
                     ELSE current.segments
      newPartial == IF event.is_final THEN <<>> ELSE event.text
  IN SpreadWith(prev, provider,
                ProviderState(newSegments, newPartial, latency, now, ref))

\* newPartial = "" is missing.
TranscriptionUpdaterKeepPartial(prev, event, now, speech, ref) ==
  LET provider == event.provider
      current == IF provider \in DOMAIN prev THEN prev[provider] ELSE FreshState(0)
      append == event.is_final /\ Truthy(Trim(event.text))
      latency == IF append THEN TimeSinceSpeech(now, speech) ELSE current.latency
      newSegments == IF append
                     THEN Append(current.segments,
                                 [text |-> event.text, latency |-> latency])
                     ELSE current.segments
  IN SpreadWith(prev, provider,
                ProviderState(newSegments, event.text, latency, now, ref))

\* if (event.text) in place of if (event.text.trim()).
TranscriptionUpdaterNoTrim(prev, event, now, speech, ref) ==
  LET provider == event.provider
      current == IF provider \in DOMAIN prev THEN prev[provider] ELSE FreshState(0)
      append == event.is_final /\ Truthy(event.text)
      latency == IF append THEN TimeSinceSpeech(now, speech) ELSE current.latency
      newSegments == IF append
                     THEN Append(current.segments,
                                 [text |-> event.text, latency |-> latency])
                     ELSE current.segments
      newPartial == IF event.is_final THEN <<>> ELSE event.text
  IN SpreadWith(prev, provider,
                ProviderState(newSegments, newPartial, latency, now, ref))

\* The partial text is appended to the previous partial.
TranscriptionUpdaterMergePartial(prev, event, now, speech, ref) ==
  LET provider == event.provider
      current == IF provider \in DOMAIN prev THEN prev[provider] ELSE FreshState(0)
      append == event.is_final /\ Truthy(Trim(event.text))
      latency == IF append THEN TimeSinceSpeech(now, speech) ELSE current.latency
      newSegments == IF append
                     THEN Append(current.segments,
                                 [text |-> event.text, latency |-> latency])
                     ELSE current.segments
      newPartial == IF event.is_final THEN <<>>
                    ELSE current.partialText \o event.text
  IN SpreadWith(prev, provider,
                ProviderState(newSegments, newPartial, latency, now, ref))

\* The result of an updater that throws.
TypeError == "TypeError"

\* prev[p] is a member of Object.prototype: p is no own key of prev and
\* names an inherited member, a truthy value without segments.
Inherited(prev, p) == p \notin DOMAIN prev /\ p \in PrototypeKeys

\* The updater handleTranscription passes to setStates.  now was read by
\* handleTranscription; speech is lastSpeechTimeRef.current when the updater
\* runs; ref is the identity of the object the updater creates.  With
\* prev[provider] an inherited member, [...current.segments] throws.
TranscriptionUpdater(prev, event, now, speech, ref) ==
  LET provider == event.provider
      current == IF provider \in DOMAIN prev THEN prev[provider] ELSE FreshState(0)
      append == event.is_final /\ Truthy(Trim(event.text))
      latency == IF append THEN TimeSinceSpeech(now, speech) ELSE current.latency
      newSegments == IF append
                     THEN Append(current.segments,
                                 [text |-> event.text, latency |-> latency])
                     ELSE current.segments
      newPartial == IF event.is_final THEN <<>> ELSE event.text
  IN IF Inherited(prev, provider) THEN TypeError
     ELSE SpreadWith(prev, provider,
                     ProviderState(newSegments, newPartial, latency, now, ref))

\* data.providers.forEach(p => { if (!next[p]) next[p] = {...} }); next[p]
\* is falsy when p is no own key and names no inherited member.
RECURSIVE ConfigForEach(_, _, _)
ConfigForEach(next, providers, ref) ==
  IF providers = <<>> THEN next
  ELSE LET p == Head(providers)
       IN IF p \notin DOMAIN next /\ ~Inherited(next, p)
          THEN ConfigForEach(SpreadWith(next, p, FreshState(ref)),
                             Tail(providers), ref + 1)
          ELSE ConfigForEach(next, Tail(providers), ref)

\* Variants of the config updater, each with one slip.
\* The if (!next[p]) test is missing: every listed provider is reset.
RECURSIVE ConfigForEachOverwrite(_, _, _)
ConfigForEachOverwrite(next, providers, ref) ==
  IF providers = <<>> THEN next
  ELSE ConfigForEachOverwrite(SpreadWith(next, Head(providers), FreshState(ref)),
                              Tail(providers), ref + 1)

ConfigUpdaterOverwrite(prev, providers, ref) ==
  ConfigForEachOverwrite(prev, providers, ref)

\* next starts as {} in place of { ...prev }.
ConfigUpdaterNoSpread(prev, providers, ref) == ConfigForEach(<<>>, providers, ref)

\* The updater the config branch of ws.onmessage passes to setStates.
ConfigUpdater(prev, providers, ref) == ConfigForEach(prev, providers, ref)

\* ------------------------------------------------- React's update queue
NoEvent == [provider |-> "", text |-> <<>>, is_final |-> FALSE]
NoStates == <<>>

\* One queued state update.  hook says which useState it belongs to; for the
\* states hook, kind, event, providers and now are what the updater closure
\* holds.  hasEagerState, eagerState and eagerSpeech are React's eager
\* evaluation: the updater's result when it was run at the setStates call,
\* and the value of lastSpeechTimeRef.current it read there.
\* speechAtReceipt is auxiliary: lastSpeechTimeRef.current when the message
\* was received.
Update(hook, kind, event, providers, now, value, flag) ==
  [hook |-> hook, kind |-> kind, event |-> event, providers |-> providers,
   now |-> now, value |-> value, flag |-> flag,
   hasEagerState |-> FALSE, eagerState |-> NoStates, eagerSpeech |-> 0,
   speechAtReceipt |-> lastSpeechTime]

TranscriptionUpdate(event, now) ==
  Update("states", "transcription", event, <<>>, now, NoError, FALSE)
ConfigUpdate(providers) ==
  Update("states", "config", NoEvent, providers, 0, NoError, FALSE)
\* An error update that keeps an error already shown.
ErrorUpdateKeepFirst(value) ==
  Update("error", "set", NoEvent, <<>>, 0,
         IF error # NoError THEN error ELSE value, FALSE)
ErrorUpdate(value) ==
  Update("error", "set", NoEvent, <<>>, 0, value, FALSE)
\* The update of a config message that has no providers field.
BrokenConfigUpdate ==
  Update("states", "configNoProviders", NoEvent, <<>>, 0, NoError, FALSE)
RecordingUpdate(flag) ==
  Update("isRecording", "set", NoEvent, <<>>, 0, NoError, flag)

\* The updater of u throws when React runs it on prev: a config message
\* without a providers list (data.providers.forEach on undefined), or a
\* transcription whose provider names an inherited member of prev.
Throws(u, prev) ==
  /\ u.hook = "states"
  /\ \/ u.kind = "configNoProviders"
     \/ u.kind = "transcription" /\ Inherited(prev, u.event.provider)

\* The updater of a states update, run on prev.
RunUpdater(u, prev, speech, ref) ==
  IF u.kind = "transcription"
  THEN TranscriptionUpdater(prev, u.event, u.now, speech, ref)
  ELSE IF u.kind = "configNoProviders" THEN TypeError
  ELSE ConfigUpdater(prev, u.providers, ref)

\* ProviderState objects the updater of u creates when run on prev; an
\* updater that throws does so before it creates one.
Allocated(u, prev, speech) ==
  IF Throws(u, prev) THEN 0
  ELSE IF u.kind = "transcription" THEN 1
  ELSE Cardinality(DOMAIN RunUpdater(u, prev, speech, 0) \ DOMAIN prev)

HasPending(hook) == \E i \in 1..Len(queue) : queue[i].hook = hook

\* setStates(updater) outside a click handler.  With no update pending on
\* the component the updater runs now (eager state); otherwise it is queued
\* and runs at the next render.
SetStates(u) ==
  IF queue = <<>> /\ ~Throws(u, states)
  THEN /\ queue' = << [u EXCEPT
                         !.hasEagerState = TRUE,
                         !.eagerState = RunUpdater(u, states, lastSpeechTime, nextRef),
                         !.eagerSpeech = lastSpeechTime] >>
       /\ nextRef' = nextRef + Allocated(u, states, lastSpeechTime)
  ELSE /\ queue' = Append(queue, u)
       /\ nextRef' = nextRef

\* setError(value) and setIsRecording(flag) outside a click handler.
SetLater(u) ==
  /\ queue' = Append(queue, u)
  /\ nextRef' = nextRef

\* setError(value) inside a click handler: rendered before the handler's
\* task ends; it is also re-run after any update of the hook still pending.
SetErrorSync(value) ==
  /\ error' = value
  /\ queue' = IF HasPending("error") THEN Append(queue, ErrorUpdate(value)) ELSE queue

\* setIsRecording(flag) inside a click handler.
SetIsRecordingSync(flag) ==
  /\ isRecording' = flag
  /\ queue' = IF HasPending("isRecording")
              THEN Append(queue, RecordingUpdate(flag)) ELSE queue

\* React renders: the queued updates run in order.  One step runs one
\* update; no callback runs until the queue is empty.
ApplyUpdate ==
  /\ mounted
  /\ queue # <<>>
  /\ ~Throws(Head(queue), states)
  /\ LET u == Head(queue)
         speech == IF u.hasEagerState THEN u.eagerSpeech ELSE lastSpeechTime
     IN /\ states' = IF u.hook # "states" THEN states
                     ELSE IF u.hasEagerState THEN u.eagerState
                     ELSE RunUpdater(u, states, lastSpeechTime, nextRef)
        /\ nextRef' = IF u.hook = "states" /\ ~u.hasEagerState
                      THEN nextRef + Allocated(u, states, lastSpeechTime)
                      ELSE nextRef
        /\ history' = IF u.hook = "states"
                      THEN Append(history, [update |-> u, speech |-> speech])
                      ELSE history
        /\ error' = IF u.hook = "error" THEN u.value ELSE error
        /\ isRecording' = IF u.hook = "isRecording" THEN u.flag ELSE isRecording
  /\ queue' = Tail(queue)
  /\ rendering' = (Tail(queue) # <<>>)
  /\ UNCHANGED << mediaDevices, clock, mounted, wsVars, captureVars, audioVars >>

\* React renders and the updater at the head of the queue throws (a config
\* without providers, or a transcription whose provider names an inherited
\* member): with no error boundary the component is unmounted, and the
\* effect's cleanup closes the socket.
RenderThrows ==
  /\ mounted
  /\ queue # <<>>
  /\ Throws(Head(queue), states)
  /\ mounted' = FALSE
  /\ queue' = <<>>
  /\ rendering' = FALSE
  /\ readyState' = "CLOSED"
  /\ UNCHANGED << mediaDevices, clock, states, error, isRecording, nextRef, history,
                  received, messages, captureVars, audioVars >>

\* ------------------------------------------------------------ the clock
\* Date.now() is the wall clock: time passes, or the system clock is set
\* back.
Tick ==
  /\ ~rendering
  /\ \E d \in TickSteps :
       \/ /\ clock + d <= MaxTime
          /\ clock' = clock + d
       \/ /\ clock - d >= StartTime
          /\ clock' = clock - d
  /\ UNCHANGED << mediaDevices, reactVars, wsVars, captureVars, audioVars >>

\* -------------------------------------------------------- the WebSocket
Events == [provider : Providers, text : Texts, is_final : BOOLEAN]

RECURSIVE SeqsUpTo(_, _)
SeqsUpTo(S, n) ==
  IF n = 0 THEN { <<>> }
  ELSE LET shorter == SeqsUpTo(S, n - 1)
       IN shorter \cup { Append(s, x) : s \in shorter, x \in S }

ProviderLists == SeqsUpTo(Providers, Cardinality(Providers))

\* ws.onopen
WsOpen ==
  /\ ~rendering
  /\ readyState = "CONNECTING"
  /\ readyState' = "OPEN"
  /\ SetLater(ErrorUpdate(NoError))
  /\ UNCHANGED << mediaDevices, clock, states, error, isRecording, rendering, history, mounted,
                  received, messages, captureVars, audioVars >>

\* ws.onerror: the connection failed; the socket is closed.
WsError ==
  /\ ~rendering
  /\ readyState \in {"CONNECTING", "OPEN"}
  /\ readyState' = "CLOSED"
  /\ SetLater(ErrorUpdate(ConnectError))
  /\ UNCHANGED << mediaDevices, clock, states, error, isRecording, rendering, history, mounted,
                  received, messages, captureVars, audioVars >>

\* The remote end closes the socket; the component has no onclose.
WsClose ==
  /\ ~rendering
  /\ readyState = "OPEN"
  /\ readyState' = "CLOSED"
  /\ UNCHANGED << mediaDevices, clock, reactVars, received, messages, captureVars, audioVars >>

CanReceive == ~rendering /\ readyState = "OPEN" /\ received < MaxReceived

\* An inbound message, as ws.onmessage parsed it.
Message(type, event, providers, message) ==
  [type |-> type, event |-> event, providers |-> providers,
   message |-> message]

\* ws.onmessage, data.type === "transcription": handleTranscription(data)
OnTranscription(event) ==
  /\ CanReceive
  /\ received' = received + 1
  /\ messages' = Append(messages, Message("transcription", event, <<>>, NoError))
  /\ SetStates(TranscriptionUpdate(event, clock))
  /\ UNCHANGED << mediaDevices, clock, states, error, isRecording, rendering, history, mounted,
                  readyState, captureVars, audioVars >>

\* ws.onmessage, data.type === "config"
OnConfig(providers) ==
  /\ CanReceive
  /\ received' = received + 1
  /\ messages' = Append(messages, Message("config", NoEvent, providers, NoError))
  /\ SetStates(ConfigUpdate(providers))
  /\ UNCHANGED << mediaDevices, clock, states, error, isRecording, rendering, history, mounted,
                  readyState, captureVars, audioVars >>

\* ws.onmessage, data.type === "error"
OnError(message) ==
  /\ CanReceive
  /\ received' = received + 1
  /\ messages' = Append(messages, Message("error", NoEvent, <<>>, message))
  /\ SetLater(ErrorUpdate(message))
  /\ UNCHANGED << mediaDevices, clock, states, error, isRecording, rendering, history, mounted,
                  readyState, captureVars, audioVars >>

\* The malformed messages: text that is not JSON, an object of unknown
\* type, a config object without providers, an error object without message.
MalformedKinds ==
  {"invalidJson", "unknownType", "configNoProviders", "errorNoMessage"}

\* ws.onmessage for a malformed message.  JSON.parse throws into the catch
\* block; an unknown type matches no branch; a config without providers
\* calls setStates with an updater that will throw; an error without
\* message calls setError(undefined).
OnMalformed(kind) ==
  /\ CanReceive
  /\ received' = received + 1
  /\ messages' = Append(messages, Message(kind, NoEvent, <<>>, Undefined))
  /\ CASE kind = "configNoProviders" -> SetStates(BrokenConfigUpdate)
       [] kind = "errorNoMessage" -> SetLater(ErrorUpdate(Undefined))
       [] OTHER -> queue' = queue /\ nextRef' = nextRef
  /\ UNCHANGED << mediaDevices, clock, states, error, isRecording, rendering, history, mounted,
                  readyState, captureVars, audioVars >>

\* ------------------------------------------------ the audio block callback
\* The samples audio blocks are made of: below -1, -1, around the speech
\* threshold on both sides, 0, 1 and above 1.
Samples == {-40000, -SampleDen, 0, 501, 502, SampleDen, 40000}
Blocks == SeqsUpTo(Samples, MaxBlockLen) \ { <<>> }
\* The blocks of the whole-session specification: one silent, one loud.
SessionBlocks == { <<0>>, <<502>> }

\* Math.max(-1, Math.min(1, float32Array[i]))
ClampSample(n) == Max(-SampleDen, Min(SampleDen, n))

\* Storing a number in an Int16Array: truncated toward zero, then modulo 2^16.
TruncDiv(n, d) == IF n >= 0 THEN n \div d ELSE -((-n) \div d)
ToInt16(x) == LET m == x % (2 ^ 16) IN IF m >= 2 ^ 15 THEN m - 2 ^ 16 ELSE m

\* Variant: every sample is scaled by 0x8000.
ScaleSampleSymmetric(s) == ToInt16(TruncDiv(s * NegScale, SampleDen))

\* s < 0 ? s * 0x8000 : s * 0x7FFF, stored in int16Array[i]
ScaleSample(s) ==
  ToInt16(IF s < 0 THEN TruncDiv(s * NegScale, SampleDen)
          ELSE TruncDiv(s * PosScale, SampleDen))

EncodeSample(n) == ScaleSample(ClampSample(n))

Encode(block) == [i \in 1..Len(block) |-> EncodeSample(block[i])]

\* The loop's maxAmp: the largest Math.abs(int16Array[i]), from 0.
RECURSIVE MaxAmp(_)
MaxAmp(frame) ==
  IF frame = <<>> THEN 0 ELSE Max(Abs(Head(frame)), MaxAmp(Tail(frame)))

\* Variant: maxAmp >= 500.
SpeechDetectedAtThreshold(maxAmp) == maxAmp >= SpeechThreshold

\* if (maxAmp > 500)
SpeechDetected(maxAmp) == maxAmp > SpeechThreshold

\* if (maxAmp > 500) lastSpeechTimeRef.current = Date.now()
NextSpeechTime(maxAmp, now, last) == IF SpeechDetected(maxAmp) THEN now ELSE last

\* Variant: the frame is sent whatever the socket's state.
CanSendAlways == TRUE

\* websocketRef.current?.readyState === WebSocket.OPEN
CanSend == readyState = "OPEN"

\* worklet.port.onmessage for one posted block.
OnAudioBlock(block) ==
  /\ ~rendering
  /\ posted > 0
  /\ posted' = posted - 1
  /\ blocksSeen' = blocksSeen + 1
  /\ lastBlock' = block
  /\ lastFrame' = Encode(block)
  /\ lastSpeechTime' = NextSpeechTime(MaxAmp(Encode(block)), clock, lastSpeechTime)
  /\ sent' = IF CanSend THEN sent + 1 ELSE sent
  /\ UNCHANGED << mediaDevices, clock, reactVars, wsVars, callPc, streams, contexts,
                  streamRef, audioContextRef >>

\* ------------------------------------------------ starting and stopping
Calls == 1..MaxStarts

\* PCMProcessor.process posts its input channel while the context of an
\* installed worklet runs.
WorkletPost(i) ==
  /\ ~rendering
  /\ callPc[i] = "done"
  /\ contexts[i] = "running"
  /\ blocksSeen + posted < MaxBlocks
  /\ posted' = posted + 1
  /\ UNCHANGED << mediaDevices, clock, reactVars, wsVars, callPc, streams, contexts,
                  streamRef, audioContextRef, audioVars >>

\* The button's onClick while isRecording is false: startRecording up to
\* its first await.
ClickStart(i) ==
  /\ mounted
  /\ ~rendering
  /\ ~isRecording
  /\ mediaDevices
  /\ callPc[i] = "unused"
  /\ \A j \in Calls : j < i => callPc[j] # "unused"
  /\ SetErrorSync(NoError)
  /\ callPc' = [callPc EXCEPT ![i] = "getUserMedia"]
  /\ UNCHANGED << mediaDevices, clock, states, isRecording, rendering, nextRef, history, mounted,
                  wsVars, streams, contexts, streamRef, audioContextRef,
                  posted, audioVars >>

\* The button's onClick while isRecording is false, navigator.mediaDevices
\* being undefined: setError(null), then reading getUserMedia throws before
\* the await and the catch block calls setError(MicError), all inside the
\* click; no call is left pending.
ClickStartThrows(i) ==
  /\ mounted
  /\ ~rendering
  /\ ~isRecording
  /\ ~mediaDevices
  /\ callPc[i] = "unused"
  /\ \A j \in Calls : j < i => callPc[j] # "unused"
  /\ error' = MicError
  /\ queue' = IF HasPending("error")
              THEN queue \o << ErrorUpdate(NoError), ErrorUpdate(MicError) >>
              ELSE queue
  /\ callPc' = [callPc EXCEPT ![i] = "failed"]
  /\ UNCHANGED << mediaDevices, clock, states, isRecording, rendering, nextRef,
                  history, mounted, wsVars, streams, contexts, streamRef,
                  audioContextRef, posted, audioVars >>

\* getUserMedia resolves and the AudioContext is created: up to the await
\* of addModule.
GetUserMediaResolved(i) ==
  /\ ~rendering
  /\ callPc[i] = "getUserMedia"
  /\ streams' = [streams EXCEPT ![i] = "live"]
  /\ streamRef' = i
  /\ contexts' = [contexts EXCEPT ![i] = "running"]
  /\ audioContextRef' = i
  /\ callPc' = [callPc EXCEPT ![i] = "addModule"]
  /\ UNCHANGED << mediaDevices, clock, reactVars, wsVars, posted, audioVars >>

\* getUserMedia rejects: the catch block.
GetUserMediaRejected(i) ==
  /\ ~rendering
  /\ callPc[i] = "getUserMedia"
  /\ callPc' = [callPc EXCEPT ![i] = "failed"]
  /\ SetLater(ErrorUpdate(MicError))
  /\ UNCHANGED << mediaDevices, clock, states, error, isRecording, rendering, history, mounted,
                  wsVars, streams, contexts, streamRef, audioContextRef,
                  posted, audioVars >>

\* getUserMedia resolves and new AudioContext throws: the catch block.
AudioContextThrows(i) ==
  /\ ~rendering
  /\ callPc[i] = "getUserMedia"
  /\ streams' = [streams EXCEPT ![i] = "live"]
  /\ streamRef' = i
  /\ callPc' = [callPc EXCEPT ![i] = "failed"]
  /\ SetLater(ErrorUpdate(MicError))
  /\ UNCHANGED << mediaDevices, clock, states, error, isRecording, rendering, history, mounted,
                  wsVars, contexts, audioContextRef, posted, audioVars >>

\* addModule resolves: the worklet is created and connected, its port's
\* onmessage installed, and setIsRecording(true) called.
AddModuleResolved(i) ==
  /\ ~rendering
  /\ callPc[i] = "addModule"
  /\ callPc' = [callPc EXCEPT ![i] = "done"]
  /\ SetLater(RecordingUpdate(TRUE))
  /\ UNCHANGED << mediaDevices, clock, states, error, isRecording, rendering, history, mounted,
                  wsVars, streams, contexts, streamRef, audioContextRef,
                  posted, audioVars >>

\* addModule rejects, or a later statement of the try block throws: the
\* catch block.
AddModuleRejected(i) ==
  /\ ~rendering
  /\ callPc[i] = "addModule"
  /\ callPc' = [callPc EXCEPT ![i] = "failed"]
  /\ SetLater(ErrorUpdate(MicError))
  /\ UNCHANGED << mediaDevices, clock, states, error, isRecording, rendering, history, mounted,
                  wsVars, streams, contexts, streamRef, audioContextRef,
                  posted, audioVars >>

\* The button's onClick while isRecording is true: stopRecording.
ClickStop ==
  /\ mounted
  /\ ~rendering
  /\ isRecording
  /\ streams' = IF streamRef # 0
                THEN [streams EXCEPT ![streamRef] = "stopped"] ELSE streams
  /\ contexts' = IF audioContextRef # 0
                 THEN [contexts EXCEPT ![audioContextRef] = "closed"] ELSE contexts
  /\ SetIsRecordingSync(FALSE)
  /\ UNCHANGED << mediaDevices, clock, states, error, rendering, nextRef, history, mounted, wsVars,
                  callPc, streamRef, audioContextRef, posted, audioVars >>

\* ---------------------------------------------------------- specifications
Init ==
  /\ clock = StartTime
  /\ lastSpeechTime = 0
  /\ states = <<>>
  /\ error = NoError
  /\ isRecording = FALSE
  /\ queue = <<>>
  /\ rendering = FALSE
  /\ nextRef = 1
  /\ history = <<>>
  /\ readyState = "CONNECTING"
  /\ received = 0
  /\ messages = <<>>
  /\ mounted = TRUE
  /\ callPc = [i \in Calls |-> "unused"]
  /\ streams = [i \in Calls |-> "none"]
  /\ contexts = [i \in Calls |-> "none"]
  /\ streamRef = 0
  /\ audioContextRef = 0
  /\ posted = 0
  /\ mediaDevices \in BOOLEAN
  /\ blocksSeen = 0
  /\ lastBlock = <<>>
  /\ lastFrame = <<>>
  /\ sent = 0

\* Messages of any content, at most MaxEvents of them.
MessageTranscription ==
  /\ received < MaxEvents
  /\ \E event \in Events : OnTranscription(event)
MessageConfig ==
  /\ received < MaxEvents
  /\ \E providers \in ProviderLists : OnConfig(providers)
MessageError ==
  /\ received < MaxEvents
  /\ \E message \in ServerErrors : OnError(message)
MessageMalformed ==
  /\ received < MaxEvents
  /\ \E kind \in MalformedKinds : OnMalformed(kind)
\* Well-formed messages whose provider is named like an inherited member.
OddEvents == [provider : OddProviders, text : Texts, is_final : BOOLEAN]
OddProviderLists ==
  SeqsUpTo(Providers \cup OddProviders, 2) \ SeqsUpTo(Providers, 2)
MessageTranscriptionOdd ==
  /\ received < MaxEvents
  /\ \E event \in OddEvents : OnTranscription(event)
MessageConfigOdd ==
  /\ received < MaxEvents
  /\ \E providers \in OddProviderLists : OnConfig(providers)

\* Two providers transcribing the same utterance: the server announces
\* both, deepgram sends a partial and then its final, openai sends its
\* final only.
Hi == << "h", "i" >>
HiThere == << "h", "i", " ", "t", "h", "e", "r", "e" >>
HiTherePeriod == Append(HiThere, ".")
StreamConfig == << "deepgram", "openai" >>
StreamOf(p) ==
  IF p = "deepgram"
  THEN << [provider |-> "deepgram", text |-> Hi, is_final |-> FALSE],
          [provider |-> "deepgram", text |-> HiThere, is_final |-> TRUE] >>
  ELSE << [provider |-> "openai", text |-> HiTherePeriod, is_final |-> TRUE] >>

\* The number of transcription events of provider p delivered so far.
Delivered(p) ==
  Cardinality({ i \in 1..Len(messages) :
                  /\ messages[i].type = "transcription"
                  /\ messages[i].event.provider = p })

\* The config message is the first message of the connection.
StreamConfigMessage ==
  /\ messages = <<>>
  /\ OnConfig(StreamConfig)

\* The next event of provider p's stream arrives: each stream in its own
\* order, the two streams interleaved in any way.
StreamNext(p) ==
  /\ messages # <<>>
  /\ Delivered(p) < Len(StreamOf(p))
  /\ OnTranscription(StreamOf(p)[Delivered(p) + 1])

MessageStream == \E p \in Providers : StreamNext(p)
StartClicked == \E i \in Calls : ClickStart(i)
StartThrows == \E i \in Calls : ClickStartThrows(i)
MediaResolved == \E i \in Calls : GetUserMediaResolved(i)
MediaRejected == \E i \in Calls : GetUserMediaRejected(i)
ContextThrows == \E i \in Calls : AudioContextThrows(i)
ModuleResolved == \E i \in Calls : AddModuleResolved(i)
ModuleRejected == \E i \in Calls : AddModuleRejected(i)
BlockPosted == \E i \in Calls : WorkletPost(i)
SessionBlockHandled == \E block \in SessionBlocks : OnAudioBlock(block)
BlockHandled == \E block \in Blocks : OnAudioBlock(block)

Capture ==
  \/ StartClicked \/ StartThrows \/ MediaResolved \/ MediaRejected \/ ContextThrows
  \/ ModuleResolved \/ ModuleRejected \/ ClickStop \/ BlockPosted

\* The whole session.
Next ==
  \/ Tick \/ ApplyUpdate \/ RenderThrows
  \/ WsOpen \/ WsError \/ WsClose
  \/ MessageTranscription \/ MessageConfig \/ MessageError
  \/ MessageMalformed \/ MessageTranscriptionOdd \/ MessageConfigOdd
  \/ Capture
  \/ SessionBlockHandled

Spec == Init /\ [][Next]_vars

\* The page is a secure context: navigator.mediaDevices is defined.
InitSecure == Init /\ mediaDevices

\* The inbound side alone: no recording is started.  The remote close is
\* left to SpecTransport: no message arrives after it, and the updates
\* still queued run the same whether the socket is open or closed.
NextInbound ==
  \/ Tick \/ ApplyUpdate
  \/ WsOpen \/ WsError
  \/ MessageTranscription \/ MessageConfig \/ MessageError

\* No callback of the inbound side reads navigator.mediaDevices: the
\* behaviours of an insecure page are the same, with mediaDevices FALSE.
SpecInbound == InitSecure /\ [][NextInbound]_vars

\* The two providers' streams, interleaved in any way and rendered at any
\* pace, each message arriving at any time of the clock.
NextStreams ==
  \/ Tick \/ ApplyUpdate \/ WsOpen
  \/ StreamConfigMessage \/ MessageStream

SpecStreams == InitSecure /\ [][NextStreams]_vars

\* Transcriptions arriving while a recording runs: one recording starts,
\* without failure, and is not stopped.
NextLatency ==
  \/ Tick \/ ApplyUpdate \/ WsOpen \/ MessageTranscription
  \/ ClickStart(1) \/ GetUserMediaResolved(1) \/ AddModuleResolved(1)
  \/ WorkletPost(1)
  \/ SessionBlockHandled

SpecLatency == Init /\ [][NextLatency]_vars

\* The capture side alone, over every block: no inbound message arrives,
\* and one recording starts, without failure, and is not stopped.
NextAudio ==
  \/ Tick \/ ApplyUpdate
  \/ ClickStart(1) \/ GetUserMediaResolved(1) \/ AddModuleResolved(1)
  \/ WorkletPost(1)
  \/ BlockHandled

SpecAudio == Init /\ [][NextAudio]_vars

\* Starting and stopping, with every failure of startRecording and the
\* blocks the worklets post; no inbound message arrives.
NextCapture ==
  \/ ApplyUpdate \/ WsOpen
  \/ Capture
  \/ SessionBlockHandled

SpecCapture == Init /\ [][NextCapture]_vars

\* The inbound side with malformed messages among the well-formed ones.
NextProtocol ==
  \/ ApplyUpdate \/ RenderThrows
  \/ WsOpen
  \/ MessageConfig \/ MessageError
  \/ MessageMalformed

SpecProtocol == Init /\ [][NextProtocol]_vars

\* The inbound side with providers named like members of Object.prototype
\* among the others.
NextNames ==
  \/ ApplyUpdate \/ RenderThrows
  \/ WsOpen
  \/ MessageTranscription \/ MessageTranscriptionOdd
  \/ MessageConfigOdd

SpecNames == Init /\ [][NextNames]_vars

\* The transport under one recording: the socket opens, fails or is closed
\* at any moment of a recording that starts without failure and may be
\* stopped.
NextTransport ==
  \/ ApplyUpdate
  \/ WsOpen \/ WsError \/ WsClose
  \/ ClickStart(1) \/ GetUserMediaResolved(1) \/ AddModuleResolved(1)
  \/ WorkletPost(1) \/ ClickStop
  \/ SessionBlockHandled

SpecTransport == Init /\ [][NextTransport]_vars

\* ------------------------------------------------------------ properties
\* A step in which React runs a states updater, the update it runs, and the
\* value of lastSpeechTimeRef.current the updater read.
StatesUpdateRuns == Len(history') = Len(history) + 1
RunUpdate == history'[Len(history')].update
RunSpeech == history'[Len(history')].speech
TranscriptionRuns == StatesUpdateRuns /\ RunUpdate.kind = "transcription"
ConfigRuns == StatesUpdateRuns /\ RunUpdate.kind = "config"

\* The state the updater resolves for provider p before it runs.
StateBefore(p) == IF p \in DOMAIN states THEN states[p] ELSE FreshState(0)

NonBlank(text) == \E i \in 1..Len(text) : text[i] \notin WhiteSpace
FinalNonBlank(event) == event.is_final /\ NonBlank(event.text)
FinalBlank(event) == event.is_final /\ ~NonBlank(event.text)

\* The last states update run, when there is one.
HasRun == history # <<>>
LastRun == Last(history).update

\* C1. Reducer isolation: a Transcription event for one provider leaves the
\* entry of every other provider the very same ProviderState: same fields,
\* same object.
TranscriptionIsolation ==
  [][TranscriptionRuns =>
       \A b \in DOMAIN states \ {RunUpdate.event.provider} :
         b \in DOMAIN states' /\ states'[b] = states[b]]_vars

\* C1 witness: a transcription was applied while another provider held a
\* segment.
TranscriptionIsolationWitness ==
  /\ HasRun
  /\ LastRun.kind = "transcription"
  /\ \E b \in DOMAIN states :
       b # LastRun.event.provider /\ states[b].segments # <<>>

\* C2. Finalization: a final event with non-blank text appends exactly one
\* segment {event.text, computed latency} at the end of the provider's log,
\* empties partialText and stores the same latency in the latency field.
FinalizationAppends ==
  [][(TranscriptionRuns /\ FinalNonBlank(RunUpdate.event)) =>
       LET p == RunUpdate.event.provider
           elapsed == RunUpdate.now - RunSpeech
           computed == IF elapsed > 0 THEN elapsed ELSE 0
       IN /\ states'[p].segments =
               Append(StateBefore(p).segments,
                      [text |-> RunUpdate.event.text, latency |-> computed])
          /\ states'[p].partialText = <<>>
          /\ states'[p].latency = computed]_vars

\* C2 witness: a partial with text, then a final with non-blank text, for
\* the same provider.
FinalizationWitness ==
  /\ Len(history) = 2
  /\ history[1].update.kind = "transcription"
  /\ ~history[1].update.event.is_final
  /\ history[1].update.event.text # <<>>
  /\ LastRun.kind = "transcription"
  /\ FinalNonBlank(LastRun.event)
  /\ LastRun.event.provider = history[1].update.event.provider
  /\ Len(states[LastRun.event.provider].segments) = 1
  /\ states[LastRun.event.provider].partialText = <<>>

\* C3. Empty-final suppression: a final event whose text is empty or white
\* space appends no segment, empties partialText and keeps the latency
\* field.
EmptyFinalSuppressed ==
  [][(TranscriptionRuns /\ FinalBlank(RunUpdate.event)) =>
       LET p == RunUpdate.event.provider
       IN /\ states'[p].segments = StateBefore(p).segments
          /\ states'[p].partialText = <<>>
          /\ states'[p].latency = StateBefore(p).latency]_vars

\* C3 witness: a white-space final applied to a provider that holds a
\* segment with a latency.
EmptyFinalWitness ==
  /\ Len(history) = 2
  /\ history[1].update.kind = "transcription"
  /\ FinalNonBlank(history[1].update.event)
  /\ LastRun.kind = "transcription"
  /\ LastRun.event.is_final
  /\ LastRun.event.text = <<" ", "\f">>
  /\ LastRun.event.provider = history[1].update.event.provider
  /\ Len(states[LastRun.event.provider].segments) = 1
  /\ states[LastRun.event.provider].latency > 0

\* C4. Partial update: a non-final event replaces partialText by event.text,
\* keeps the segment log and the latency field, and sets lastUpdate to the
\* time the event was received.
PartialReplaces ==
  [][(TranscriptionRuns /\ ~RunUpdate.event.is_final) =>
       LET p == RunUpdate.event.provider
       IN /\ states'[p].partialText = RunUpdate.event.text
          /\ states'[p].segments = StateBefore(p).segments
          /\ states'[p].latency = StateBefore(p).latency
          /\ states'[p].lastUpdate = RunUpdate.now]_vars

\* C4 witness: two partials for one provider, the second with another text,
\* run after the clock moved past its receipt.
PartialWitness ==
  /\ Len(history) = 2
  /\ history[1].update.kind = "transcription"
  /\ ~history[1].update.event.is_final
  /\ history[1].update.event.text # <<>>
  /\ LastRun.kind = "transcription"
  /\ ~LastRun.event.is_final
  /\ LastRun.event.provider = history[1].update.event.provider
  /\ LastRun.event.text # history[1].update.event.text
  /\ states[LastRun.event.provider].partialText = LastRun.event.text
  /\ states[LastRun.event.provider].lastUpdate < clock

\* C5. Gated latency: the latency of the segment appended for a non-blank
\* final event is max(0, now - marker), with now the time the event arrived
\* and marker the value of the speech-activity marker at that arrival.
LatencyFromMarkerAtArrival ==
  (HasRun /\ LastRun.kind = "transcription" /\ FinalNonBlank(LastRun.event)) =>
    Last(states[LastRun.event.provider].segments).latency =
      Max(0, LastRun.now - LastRun.speechAtReceipt)

\* C6. Config idempotence: after a Config event is applied, applying it
\* again yields the identical mapping.
ConfigIdempotent ==
  [][ConfigRuns =>
       ConfigUpdater(states', RunUpdate.providers, nextRef') = states']_vars

\* C6 witness: a Config naming a present and an absent provider was applied.
ConfigIdempotentWitness ==
  /\ Len(history) = 2
  /\ history[1].update.kind = "transcription"
  /\ LastRun.kind = "config"
  /\ Len(LastRun.providers) = 2
  /\ DOMAIN states = Providers

\* C7. Monotonic registration: the set of provider keys never shrinks, and a
\* Config event leaves every present provider's ProviderState as it is and
\* only inserts the default state, for listed providers that are absent:
\* for each of them whose name is not the name of an inherited member.
MonotonicRegistration ==
  [][/\ DOMAIN states \subseteq DOMAIN states'
     /\ ConfigRuns =>
          /\ \A p \in DOMAIN states : states'[p] = states[p]
          /\ DOMAIN states' =
               DOMAIN states \cup
                 ({ RunUpdate.providers[i] : i \in 1..Len(RunUpdate.providers) }
                    \ PrototypeKeys)
          /\ \A p \in DOMAIN states' \ DOMAIN states :
               /\ states'[p].segments = <<>>
               /\ states'[p].partialText = <<>>
               /\ states'[p].latency = 0
               /\ states'[p].lastUpdate = 0]_vars

\* C7 witness: a Config naming a provider that a Transcription event created
\* and that holds a segment.
MonotonicRegistrationWitness ==
  /\ Len(history) = 2
  /\ history[1].update.kind = "transcription"
  /\ LastRun.kind = "config"
  /\ \E i \in 1..Len(LastRun.providers) :
       /\ LastRun.providers[i] = history[1].update.event.provider
       /\ states[LastRun.providers[i]].segments # <<>>

\* C8. SpeechActivityMarker monotonicity: the marker starts at the sentinel
\* 0 and no step decreases it.  The marker is assigned Date.now() with no
\* comparison against its previous value, so the property fails when the
\* wall clock is set back between two loud blocks.
MarkerMonotonic ==
  /\ lastSpeechTime = 0
  /\ [][lastSpeechTime' >= lastSpeechTime]_vars

\* C9. Strict speech threshold: a block sets the marker to the current time
\* when its largest absolute encoded amplitude is above 500, and leaves the
\* marker as it is otherwise, 500 included.
BlockHandledStep == blocksSeen' = blocksSeen + 1
StrictThreshold ==
  [][BlockHandledStep =>
       IF \E i \in 1..Len(lastFrame') : Abs(lastFrame'[i]) > 500
       THEN lastSpeechTime' = clock
       ELSE lastSpeechTime' = lastSpeechTime]_vars

\* C9 witness: a block whose largest amplitude is exactly 500 was handled
\* after the marker was set, at a later time, and the marker kept its value.
StrictThresholdWitness ==
  /\ blocksSeen = 2
  /\ \E i \in 1..Len(lastFrame) : Abs(lastFrame[i]) = 500
  /\ \A i \in 1..Len(lastFrame) : Abs(lastFrame[i]) <= 500
  /\ lastSpeechTime > 0
  /\ lastSpeechTime < clock

\* C10. Encoder range: every encoded value is in [-32768, 32767]; 1.0 and
\* every sample above it encode to 32767, -1.0 and every sample below it to
\* -32768, 0.0 to 0; in between a negative sample is scaled by 32768 and a
\* non-negative one by 32767.
EncoderRange ==
  /\ Len(lastFrame) = Len(lastBlock)
  /\ \A i \in 1..Len(lastBlock) :
       LET n == lastBlock[i]
           v == lastFrame[i]
       IN /\ v \in -32768..32767
          /\ n >= SampleDen => v = 32767
          /\ n <= -SampleDen => v = -32768
          /\ n = 0 => v = 0
          /\ (-SampleDen < n /\ n < 0) => v = -(((-n) * 32768) \div SampleDen)
          /\ (0 <= n /\ n < SampleDen) => v = (n * 32767) \div SampleDen

\* C10 witness: a block with a sample above 1.0 and one below -1.0.
EncoderRangeWitness ==
  /\ \E i \in 1..Len(lastBlock) : lastBlock[i] > SampleDen /\ lastFrame[i] = 32767
  /\ \E i \in 1..Len(lastBlock) : lastBlock[i] < -SampleDen /\ lastFrame[i] = -32768

\* C11: applying an Error{message} event leaves the ProviderState mapping
\* unchanged and sets the session error to that message, replacing any
\* earlier error.  Receiving the message queues setError(message) and
\* leaves states alone; when React runs a queued error update, error
\* becomes its value, whatever error was before, and states is unchanged.
\* Updates run in the order they were queued, so the last message wins.
MessageReceived == Len(messages') = Len(messages) + 1
ReceivedMessage == messages'[Len(messages')]
ErrorReceived == MessageReceived /\ ReceivedMessage.type = "error"
ErrorUpdateRuns ==
  /\ queue # <<>>
  /\ Head(queue).hook = "error"
  /\ queue' = Tail(queue)
ServerErrorReplaces ==
  [][ /\ ErrorReceived =>
          /\ states' = states
          /\ Len(queue') = Len(queue) + 1
          /\ SubSeq(queue', 1, Len(queue)) = queue
          /\ Last(queue').hook = "error"
          /\ Last(queue').value = ReceivedMessage.message
      /\ ErrorUpdateRuns =>
          /\ states' = states
          /\ error' = Head(queue).value ]_vars

\* Two Error events with different messages were applied: the error shown
\* is the second message.
ServerErrorReplacesWitness ==
  /\ Len(messages) = 2
  /\ messages[1].type = "error"
  /\ messages[1].message = "provider failed"
  /\ messages[2].type = "error"
  /\ messages[2].message = "rate limited"
  /\ queue = <<>>
  /\ error = "rate limited"

\* C12: each provider's state is independent of the other providers'
\* events.  In every reachable state, whatever the interleaving of the
\* events applied so far, each provider's entry equals the entry obtained
\* by applying, from the empty mapping, only the events of that provider
\* (its transcriptions and the configs that list it), in their order and
\* with the arrival times and marker values they were applied with; and a
\* provider none of whose events was applied has no entry.
Concerns(u, p) ==
  IF u.kind = "transcription" THEN u.event.provider = p
  ELSE \E i \in 1..Len(u.providers) : u.providers[i] = p

RECURSIVE ReplayFor(_, _)
ReplayFor(p, n) ==
  IF n = 0 THEN <<>>
  ELSE LET before == ReplayFor(p, n - 1)
           run == history[n]
       IN IF Concerns(run.update, p)
          THEN RunUpdater(run.update, before, run.speech, 0)
          ELSE before

Fields(s) ==
  [segments |-> s.segments, partialText |-> s.partialText,
   latency |-> s.latency, lastUpdate |-> s.lastUpdate]

OrderIndependence ==
  \A p \in Providers :
    LET alone == ReplayFor(p, Len(history))
    IN /\ p \in DOMAIN states <=> p \in DOMAIN alone
       /\ p \in DOMAIN states => Fields(states[p]) = Fields(alone[p])

\* The two streams were delivered interleaved, openai's final between
\* deepgram's partial and deepgram's final, and every update has run: the
\* mapping has exactly two entries, each with one segment carrying its own
\* text and latency and with an empty partial.
OrderIndependenceWitness ==
  /\ Len(messages) = 4
  /\ messages[1].type = "config"
  /\ messages[1].providers = StreamConfig
  /\ messages[2].event = StreamOf("deepgram")[1]
  /\ messages[3].event = StreamOf("openai")[1]
  /\ messages[4].event = StreamOf("deepgram")[2]
  /\ queue = <<>>
  /\ Len(history) = 4
  /\ DOMAIN states = {"deepgram", "openai"}
  /\ states["deepgram"].segments
       = << [text |-> HiThere, latency |-> states["deepgram"].latency] >>
  /\ states["openai"].segments
       = << [text |-> HiTherePeriod, latency |-> states["openai"].latency] >>
  /\ states["deepgram"].partialText = <<>>
  /\ states["openai"].partialText = <<>>
  /\ states["deepgram"].latency = history[4].update.now - history[4].speech
  /\ states["openai"].latency = history[3].update.now - history[3].speech
  /\ states["deepgram"].latency # states["openai"].latency

\* Lazy creation for the updates React applies: a Transcription event for
\* a provider that has no entry is applied as if the provider had the
\* default state {segments: [], partialText: "", latency: 0, lastUpdate: 0},
\* and the provider has an entry afterwards: a partial yields no segment,
\* the text as partial and latency 0; a final with non-blank text yields one
\* segment with the measured latency; a final with blank text yields no
\* segment, no partial and latency 0.  The entry is the one the updater
\* gives when a Config naming the provider was applied first.
LazyRuns ==
  TranscriptionRuns /\ RunUpdate.event.provider \notin DOMAIN states
AfterConfig ==
  RunUpdater(RunUpdate, ConfigUpdater(states, << RunUpdate.event.provider >>, 0),
             RunSpeech, 0)
LazyCreation ==
  [][ LazyRuns =>
        LET event == RunUpdate.event
            p == event.provider
            measured == TimeSinceSpeech(RunUpdate.now, RunSpeech)
        IN /\ p \in DOMAIN states'
           /\ states'[p].segments =
                IF FinalNonBlank(event)
                THEN << [text |-> event.text, latency |-> measured] >>
                ELSE <<>>
           /\ states'[p].partialText =
                IF event.is_final THEN <<>> ELSE event.text
           /\ states'[p].latency = IF FinalNonBlank(event) THEN measured ELSE 0
           /\ states'[p].lastUpdate = RunUpdate.now
           /\ Fields(states'[p]) = Fields(AfterConfig[p]) ]_vars

\* The first update applied is a final transcription with non-blank text
\* for a provider no Config announced: the provider has an entry with one
\* segment.
LazyCreationWitness ==
  /\ Len(history) = 1
  /\ history[1].update.kind = "transcription"
  /\ FinalNonBlank(history[1].update.event)
  /\ DOMAIN states = { history[1].update.event.provider }
  /\ Len(states[history[1].update.event.provider].segments) = 1

\* The providers whose entry a step changes: the entry is created, removed
\* or replaced by another object or other contents.
Touched ==
  { p \in DOMAIN states \cup DOMAIN states' :
      \/ (p \in DOMAIN states) # (p \in DOMAIN states')
      \/ p \in DOMAIN states /\ p \in DOMAIN states' /\ states'[p] # states[p] }
Inserted == DOMAIN states' \ DOMAIN states
Listed(providers) == { providers[i] : i \in 1..Len(providers) }

\* C18 as stated: every inbound event changes the ProviderState entry of at
\* most one provider.  A Config event that lists two providers without an
\* entry creates two entries in one update.
UpdateGranularity == [][Cardinality(Touched) <= 1]_vars

\* C18, amended: every inbound event replaces at most one entry that is
\* already in the mapping and removes none.  A Transcription event touches
\* only the entry of its provider; an Error event touches no entry; a
\* Config event replaces no entry and only creates default entries, for
\* listed providers that have none, possibly several at once.
UpdateGranularityExisting ==
  [][ /\ Cardinality(Touched \ Inserted) <= 1
      /\ DOMAIN states \subseteq DOMAIN states'
      /\ TranscriptionRuns => Touched = { RunUpdate.event.provider }
      /\ ErrorUpdateRuns => Touched = {}
      /\ ConfigRuns =>
           /\ Touched = Inserted
           /\ Inserted \subseteq Listed(RunUpdate.providers)
           /\ \A p \in Inserted : Fields(states'[p]) = Fields(FreshState(0))
      /\ ~StatesUpdateRuns => Touched = {} ]_vars

\* One Config event listing both providers was applied to the empty
\* mapping: two entries were created by one update.
UpdateGranularityWitness ==
  /\ Len(history) = 1
  /\ history[1].update.kind = "config"
  /\ DOMAIN states = Providers
  /\ \A p \in Providers : Fields(states[p]) = Fields(FreshState(0))

\* The segments of the final events with non-blank text among the first n
\* updates applied, for provider p, in the order they were applied.
RECURSIVE FinalsOf(_, _)
FinalsOf(p, n) ==
  IF n = 0 THEN <<>>
  ELSE LET run == history[n]
           u == run.update
       IN IF u.kind = "transcription" /\ u.event.provider = p
             /\ FinalNonBlank(u.event)
          THEN Append(FinalsOf(p, n - 1),
                      [text |-> u.event.text,
                       latency |-> TimeSinceSpeech(u.now, run.speech)])
          ELSE FinalsOf(p, n - 1)

SegmentsOf(s, p) == IF p \in DOMAIN s THEN s[p].segments ELSE <<>>
IsPrefix(a, b) == Len(a) <= Len(b) /\ SubSeq(b, 1, Len(a)) = a

\* C19: each provider's segment log is append-only.  In every state the
\* log holds exactly one segment for each final event with non-blank text
\* applied for the provider, in the order they were applied (so its length
\* is their number); and in every step the log before is a prefix of the
\* log after: no segment is modified, removed or reordered.
AppendOnlyLog ==
  /\ [](\A p \in Providers :
          SegmentsOf(states, p) = FinalsOf(p, Len(history)))
  /\ [][\A p \in Providers :
          IsPrefix(SegmentsOf(states, p), SegmentsOf(states', p))]_vars

\* Two final events with non-blank text were applied for one provider: its
\* log has two segments, the first one the segment of the first event.
AppendOnlyLogWitness ==
  /\ Len(history) = 2
  /\ \E p \in DOMAIN states :
       /\ Len(states[p].segments) = 2
       /\ history[1].update.kind = "transcription"
       /\ history[1].update.event.provider = p
       /\ states[p].segments[1].text = history[1].update.event.text
       /\ states[p].segments[1].latency # states[p].segments[2].latency

\* C13: whenever startRecording fails, at any step, every capture resource
\* acquired during that attempt is released: once a call has run its catch
\* block, the stream it acquired has no running track and the audio context
\* it created is not running.  (The catch block logs and calls setError; it
\* stops no track and closes no context.)
CaptureFailureReleases ==
  \A i \in Calls :
    callPc[i] = "failed" => streams[i] # "live" /\ contexts[i] # "running"

\* stopRecording has run and no capture pipeline is left: a context was
\* closed and none is running.
Stopped ==
  /\ \E i \in Calls : contexts[i] = "closed"
  /\ \A i \in Calls : contexts[i] # "running"

\* C14: once stopRecording has run, no further audio frame is sent on the
\* transport, also for the blocks the worklet posted before the stop that
\* were not handled yet.  (stopRecording leaves the port's onmessage
\* installed, and the handler only tests the socket's readyState.)
StopHaltsOutbound == [][Stopped => sent' = sent]_vars

\* C16: there is no automatic reconnect.  Once the socket is closed (the
\* handshake failed or the connection was closed), it stays closed whatever
\* the session does; no step starts a new connection attempt; and no audio
\* frame is sent in a step that starts with the socket not open.
NoReconnect ==
  [][ /\ readyState = "CLOSED" => readyState' = "CLOSED"
      /\ readyState' = "CONNECTING" => readyState = "CONNECTING"
      /\ readyState # "OPEN" => sent' = sent ]_vars

\* The socket was closed while recording, after a frame was sent: a later
\* block was handled and not sent, and the recording still runs.
NoReconnectWitness ==
  /\ readyState = "CLOSED"
  /\ isRecording
  /\ sent = 1
  /\ blocksSeen = 2

\* C20: under every interleaving of clicks on the record button with the
\* asynchronous steps of startRecording, at most one microphone stream has
\* running tracks and at most one audio context is running.  (The button
\* calls startRecording as long as isRecording is false, which it is until
\* a call has passed both awaits; a second call acquires a second stream
\* and context and overwrites streamRef and audioContextRef.)
SinglePipeline ==
  /\ Cardinality({ i \in Calls : streams[i] = "live" }) <= 1
  /\ Cardinality({ i \in Calls : contexts[i] = "running" }) <= 1

\* The error banner: null and undefined both show nothing.
Shown(e) == IF e \in {NoError, Undefined} THEN NoError ELSE e
\* An update that a malformed message queued.
FromMalformed(u) ==
  \/ u.hook = "states" /\ u.kind = "configNoProviders"
  \/ u.hook = "error" /\ u.value = Undefined

\* C15: a malformed inbound message is dropped without changing the
\* ProviderState mapping or the session error, and the session continues:
\* whatever React does with an update that a malformed message queued, the
\* mapping and the error shown stay as they were, and the component stays
\* mounted with its socket, so that later events are applied.  (A config
\* message without providers queues an updater that throws when React
\* renders, outside the handler's try block; an error message without
\* message clears the error shown.)
MalformedIsolated ==
  [][ /\ mounted' = mounted
      /\ (queue # <<>> /\ FromMalformed(Head(queue)) /\ queue' # queue) =>
           /\ states' = states
           /\ Shown(error') = Shown(error)
           /\ readyState' = readyState ]_vars

\* React ends the work on the update at the head of the queue, a
\* transcription update for a provider that has no entry.
UnannouncedHandled ==
  /\ mounted
  /\ queue # <<>>
  /\ Head(queue).hook = "states"
  /\ Head(queue).kind = "transcription"
  /\ Head(queue).event.provider \notin DOMAIN states
  /\ Len(queue') < Len(queue)

\* C17: a Transcription event for a provider that no Config event has
\* announced is applied as if that provider had the default state, and the
\* provider is present in the mapping afterwards, whatever the provider's
\* name.  (The updater resolves prev[provider] || default; for a provider
\* named like a member of Object.prototype, prev[provider] is that member
\* and the updater throws.)
LazyCreationAnyName ==
  [][ UnannouncedHandled =>
        /\ mounted'
        /\ Head(queue).event.provider \in DOMAIN states'
        /\ Fields(states'[Head(queue).event.provider]) =
             Fields(RunUpdater(Head(queue), [p \in {} |-> FreshState(0)],
                               IF Head(queue).hasEagerState
                               THEN Head(queue).eagerSpeech ELSE lastSpeechTime,
                               0)[Head(queue).event.provider]) ]_vars

====
